---- MODULE Spec2Model ----
(***************************************************************************)
(* Model of the selection core of src/accumulator.py:                      *)
(*   candidate_selections, hf_predict_probabilities, enrich_with_model and *)
(*   build_accumulator_from_candidates.                                    *)
(*                                                                         *)
(* Numbers.  A price is a Python float; it is modelled by the integer      *)
(* number of hundredths (1.01 is 101, 4.1 is 410).  A probability, a score *)
(* and the running product are exact fractions [n, d].  The prices used    *)
(* below are chosen so that no product of three or more of them is exactly *)
(* 3 or 4 unless it is exactly representable in binary, so the exact       *)
(* comparisons made here agree with the float comparisons of the code.     *)
(* The team names "home" and "away" of a match are opaque strings that no  *)
(* modelled statement reads, except to copy them; they are left out.       *)
(***************************************************************************)
EXTENDS Integers, Sequences, FiniteSets, TLC

VARIABLES
    matches,         \* the list of match dicts; a match is [odds |-> mapping]
    candidates,      \* the list of candidate dicts
    pc,              \* position of the running function
    raised,          \* "none", or the exception that left the function
    hf_configured,   \* HF_API_KEY and HF_MODEL are both set
    max_calls,       \* enrich_with_model: the cap K
    i,               \* enrich_with_model: index of the match being visited (0-based)
    called,          \* enrich_with_model: its counter
    invocations,     \* history: calls of hf_predict_probabilities made so far
    supplied,        \* history: what each call returned, by match id
    sorted_c,        \* build_accumulator: the sorted list being iterated
    k,               \* build_accumulator: position in sorted_c (1-based)
    accum,           \* build_accumulator: the selection set
    product,         \* build_accumulator: running product, a fraction
    used_match_ids,  \* build_accumulator: ids of matches represented in accum
    total_odds,      \* build_accumulator: round(product, 3), in thousandths
    passOf,          \* history: the pass that made the last append
    hit              \* history: accum at the first in-range point of the primary pass

vars == <<matches, candidates, pc, raised, hf_configured, max_calls, i, called,
          invocations, supplied, sorted_c, k, accum, product, used_match_ids,
          total_odds, passOf, hit>>

enrichVars == <<hf_configured, max_calls, i, called, invocations, supplied>>
selectVars == <<sorted_c, k, accum, product, used_match_ids, total_odds, passOf, hit>>

-----------------------------------------------------------------------------
(* Program constants *)

TARGET_MIN == 3
TARGET_MAX == 4
LEGS_MAX == 4
LEGS_MIN == 3
\* the literal 1.01 of candidate_selections, in hundredths
VIABLE_LIMIT == 101
\* the default of enrich_with_model's max_calls
DEFAULT_MAX_CALLS == 10

\* the tuple iterated by candidate_selections
OUTCOMES == <<"home", "draw", "away">>

-----------------------------------------------------------------------------
(* Python values that a price mapping can hold *)

Float(x) == [t |-> "float", v |-> x]
\* a str of the given length; only its emptiness matters to the code
Str(n) == [t |-> "str", v |-> n]
None == [t |-> "NoneType", v |-> 0]

\* Python truth value of a price: None, 0.0 and "" are false
Truthy(x) == CASE x.t = "float" -> x.v # 0
               [] x.t = "str" -> x.v # 0
               [] OTHER -> FALSE

\* a price mapping is a dict: a sequence of [label, price] in declaration order
HasKey(odds, name) == \E p \in 1..Len(odds) : odds[p].label = name
Get(odds, name) ==
    IF HasKey(odds, name)
    THEN odds[CHOOSE p \in 1..Len(odds) : odds[p].label = name].price
    ELSE None

-----------------------------------------------------------------------------
(* Fractions *)

RECURSIVE GCD(_, _)
GCD(a, b) == IF b = 0 THEN a ELSE GCD(b, a % b)

Frac(n, d) == [n |-> n, d |-> d]
Reduce(f) == LET g == GCD(f.n, f.d) IN Frac(f.n \div g, f.d \div g)
FLess(a, b) == a.n * b.d < b.n * a.d
FLeq(a, b) == a.n * b.d <= b.n * a.d
FEq(a, b) == a.n * b.d = b.n * a.d
\* product *= c["odds"]
TimesOdds(f, odds) == LET o == Reduce(Frac(odds, 100)) IN Reduce(Frac(f.n * o.n, f.d * o.d))

\* "no value" for model_prob
NoProb == Frac(0, 0)

-----------------------------------------------------------------------------
(* candidate_selections *)

\* variant of AtMostLimit: the comparison written as odd < 1.01
BelowLimit(odd) == odd.v < VIABLE_LIMIT

\* lines 209-210: the second half of the skip test, odd <= 1.01
AtMostLimit(odd) == odd.v <= VIABLE_LIMIT

\* lines 211-224: the dict appended for outcome `name` of match `id`
NewCandidate(id, name, odd) ==
    [id |-> id, outcome |-> name, odds |-> odd.v,
     implied_prob |-> Frac(100, odd.v), model_prob |-> NoProb,
     score |-> Frac(100, odd.v)]

\* the two nested loops; m is the 1-based position of the match, j of the outcome
RECURSIVE cs_loop(_, _, _, _)
cs_loop(ms, m, j, cand) ==
    IF m > Len(ms) THEN [raised |-> "none", cand |-> cand]
    ELSE IF j > Len(OUTCOMES) THEN cs_loop(ms, m + 1, 1, cand)
    ELSE LET odd == Get(ms[m].odds, OUTCOMES[j]) IN
         IF ~Truthy(odd) THEN cs_loop(ms, m, j + 1, cand)
         ELSE IF odd.t = "str" THEN [raised |-> "TypeError", cand |-> cand]
         ELSE IF AtMostLimit(odd) THEN cs_loop(ms, m, j + 1, cand)
         ELSE cs_loop(ms, m, j + 1,
                      Append(cand, NewCandidate(m - 1, OUTCOMES[j], odd)))

candidate_selections(ms) == cs_loop(ms, 1, 1, <<>>)

-----------------------------------------------------------------------------
(* Inputs of the candidate builder *)

MaxBuildMatches == 3

Pair(l, p) == [label |-> l, price |-> p]

BuildOdds == {
    \* the scraper's shape, all viable
    <<Pair("home", Float(200)), Pair("draw", Float(340)), Pair("away", Float(410))>>,
    \* declared in another order, "draw" missing
    <<Pair("away", Float(410)), Pair("home", Float(150))>>,
    \* a non-numeric price
    <<Pair("home", Str(3)), Pair("draw", Float(340)), Pair("away", Float(410))>>,
    \* zero, negative and exactly 1.01: nothing viable
    <<Pair("home", Float(0)), Pair("draw", Float(-200)), Pair("away", Float(101))>>,
    \* just above 1.01, an empty string and an explicit None
    <<Pair("home", Float(102)), Pair("draw", Str(0)), Pair("away", None)>>,
    \* a label outside home/draw/away
    <<Pair("home", Float(200)), Pair("over", Float(190)), Pair("away", Float(130))>>,
    \* a non-numeric price after a viable one
    <<Pair("home", Float(130)), Pair("draw", Float(300)), Pair("away", Str(3))>>,
    \* nothing declared
    <<>> }

SeqsUpTo(S, n) == UNION {[1..len -> S] : len \in 0..n}

\* history value: no in-range point seen yet
NoHit == [found |-> FALSE, set |-> <<>>]

EnrichQuiet ==
    /\ hf_configured = FALSE /\ max_calls = 0 /\ i = 0 /\ called = 0
    /\ invocations = 0 /\ supplied = <<>>

SelectQuiet ==
    /\ sorted_c = <<>> /\ k = 0 /\ accum = <<>> /\ product = Frac(1, 1)
    /\ used_match_ids = {} /\ total_odds = 0 /\ passOf = "none" /\ hit = NoHit

InitBuild ==
    /\ matches \in SeqsUpTo([odds : BuildOdds], MaxBuildMatches)
    /\ candidates = <<>>
    /\ pc = "cs_start"
    /\ raised = "none"
    /\ EnrichQuiet
    /\ SelectQuiet

\* one call of candidate_selections(matches)
CandidateSelections ==
    /\ pc = "cs_start"
    /\ LET r == candidate_selections(matches) IN
       /\ raised' = r.raised
       /\ candidates' = IF r.raised = "none" THEN r.cand ELSE candidates
       /\ pc' = IF r.raised = "none" THEN "cs_done" ELSE "cs_raised"
    /\ UNCHANGED <<matches, enrichVars, selectVars>>

NextBuild == CandidateSelections

SpecBuild == InitBuild /\ [][NextBuild]_vars

-----------------------------------------------------------------------------
(* hf_predict_probabilities *)

\* What the inference service does with one request.  "fail" stands for every
\* path into the except clause or the "error" reply (connection error, timeout,
\* HTTP error status, undecodable body, {"error": ...}); "text" is a reply whose
\* text holds the numbers nums, in hundredths, in the order re.findall finds them.
Reply(kind, nums) == [kind |-> kind, nums |-> nums]

Take3(s) == IF Len(s) <= 3 THEN s ELSE SubSeq(s, 1, 3)

\* lines 187-189: probs = [float(n) for n in nums][:3], divided by 100 when
\* the largest is above 1.0
ParsedProbs(nums) ==
    LET first == Take3(nums)
        percent == \E q \in 1..Len(first) : first[q] > 100
    IN [q \in 1..Len(first) |-> IF percent THEN Frac(first[q], 10000)
                                           ELSE Frac(first[q], 100)]

NoDict == [home |-> NoProb, draw |-> NoProb, away |-> NoProb]
Returned(r, isNone, probs) == [raised |-> r, isNone |-> isNone, probs |-> probs]

\* lines 163-195.  The prompt (lines 167-171) indexes odds['home'], odds['draw']
\* and odds['away'] before the try block is entered.
hf_predict_probabilities(configured, odds, reply) ==
    IF ~configured THEN Returned("none", TRUE, NoDict)
    ELSE IF \E q \in 1..Len(OUTCOMES) : ~HasKey(odds, OUTCOMES[q])
         THEN Returned("KeyError", TRUE, NoDict)
    ELSE IF reply.kind = "fail" THEN Returned("none", TRUE, NoDict)
    ELSE LET probs == ParsedProbs(reply.nums) IN
         IF Len(probs) >= 3
         THEN Returned("none", FALSE,
                       [home |-> probs[1], draw |-> probs[2], away |-> probs[3]])
         ELSE Returned("none", TRUE, NoDict)

-----------------------------------------------------------------------------
(* enrich_with_model *)

\* probs.get(c["outcome"], None)
DictGet(probs, name) == IF name \in DOMAIN probs THEN probs[name] ELSE NoProb

\* lines 242-243, for one candidate of the match that was scored
Rescored(c, probs) ==
    LET mp == DictGet(probs, c.outcome) IN
    [c EXCEPT !.model_prob = mp,
              !.score = IF mp # NoProb THEN mp ELSE c.implied_prob]

\* lines 240-243: the inner loop over all candidates
UpdateCandidates(cands, id, probs) ==
    [q \in 1..Len(cands) |-> IF cands[q].id = id THEN Rescored(cands[q], probs)
                                                 ELSE cands[q]]

\* line 233: the cap test at the head of each iteration
CapReached(n, cap) == n >= cap

MaxEnrichMatches == 3
MaxCalls == 2

EnrichOdds == {
    <<Pair("home", Float(200)), Pair("draw", Float(340)), Pair("away", Float(410))>>,
    <<Pair("home", Float(150)), Pair("draw", Float(101)), Pair("away", Float(300))>>,
    \* no price declared for "draw"
    <<Pair("home", Float(200)), Pair("away", Float(410))>> }

Replies == {
    Reply("fail", <<>>),
    \* fewer than three numbers in the text
    Reply("text", <<50, 30>>),
    \* 0.0, 0.5, 0.5
    Reply("text", <<0, 50, 50>>),
    \* 60, 25, 15: taken as percentages
    Reply("text", <<6000, 2500, 1500>>),
    \* 150, 0.2, 0.3: divided by 100, the first stays above 1
    Reply("text", <<15000, 20, 30>>),
    \* 0.9, 0.05, 0.05 and a fourth number
    Reply("text", <<90, 5, 5, 700>>) }

\* main(), lines 342-344: candidates come from candidate_selections(matches)
InitEnrich ==
    /\ matches \in SeqsUpTo([odds : EnrichOdds], MaxEnrichMatches)
    /\ candidates = candidate_selections(matches).cand
    /\ pc = "en_start"
    /\ raised = "none"
    /\ hf_configured \in BOOLEAN
    /\ max_calls \in 0..MaxCalls
    /\ i = 0 /\ called = 0 /\ invocations = 0 /\ supplied = <<>>
    /\ SelectQuiet

\* lines 229-230
EnrichNotConfigured ==
    /\ pc = "en_start"
    /\ ~hf_configured
    /\ pc' = "en_done"
    /\ UNCHANGED <<matches, candidates, raised, enrichVars, selectVars>>

\* lines 231-232
EnrichBegin ==
    /\ pc = "en_start"
    /\ hf_configured
    /\ called' = 0
    /\ i' = 0
    /\ pc' = "en_loop"
    /\ UNCHANGED <<matches, candidates, raised, hf_configured, max_calls,
                   invocations, supplied, selectVars>>

\* line 232: the for loop has visited every match; line 245
EnrichExhausted ==
    /\ pc = "en_loop"
    /\ i >= Len(matches)
    /\ pc' = "en_done"
    /\ UNCHANGED <<matches, candidates, raised, enrichVars, selectVars>>

\* lines 233-234; line 245
EnrichCapBreak ==
    /\ pc = "en_loop"
    /\ i < Len(matches)
    /\ CapReached(called, max_calls)
    /\ pc' = "en_done"
    /\ UNCHANGED <<matches, candidates, raised, enrichVars, selectVars>>

\* line 235, when the call raises: the exception leaves enrich_with_model
EnrichCallRaises ==
    /\ pc = "en_loop"
    /\ i < Len(matches)
    /\ ~CapReached(called, max_calls)
    /\ \E reply \in Replies :
         LET r == hf_predict_probabilities(hf_configured, matches[i + 1].odds, reply) IN
         /\ r.raised # "none"
         /\ raised' = r.raised
    /\ invocations' = invocations + 1
    /\ pc' = "en_raised"
    /\ UNCHANGED <<matches, candidates, hf_configured, max_calls, i, called,
                   supplied, selectVars>>

\* lines 235-237, when the call returns None
EnrichCallAbsent ==
    /\ pc = "en_loop"
    /\ i < Len(matches)
    /\ ~CapReached(called, max_calls)
    /\ \E reply \in Replies :
         LET r == hf_predict_probabilities(hf_configured, matches[i + 1].odds, reply) IN
         /\ r.raised = "none"
         /\ r.isNone
    /\ invocations' = invocations + 1
    /\ i' = i + 1
    /\ UNCHANGED <<matches, candidates, pc, raised, hf_configured, max_calls,
                   called, supplied, selectVars>>

\* lines 235-243, when the call returns a dict
EnrichCallSupplied ==
    /\ pc = "en_loop"
    /\ i < Len(matches)
    /\ ~CapReached(called, max_calls)
    /\ \E reply \in Replies :
         LET r == hf_predict_probabilities(hf_configured, matches[i + 1].odds, reply) IN
         /\ r.raised = "none"
         /\ ~r.isNone
         /\ candidates' = UpdateCandidates(candidates, i, r.probs)
         /\ supplied' = [id \in DOMAIN supplied \cup {i} |->
                           IF id = i THEN r.probs ELSE supplied[id]]
    /\ invocations' = invocations + 1
    /\ called' = called + 1
    /\ i' = i + 1
    /\ UNCHANGED <<matches, pc, raised, hf_configured, max_calls, selectVars>>

NextEnrich ==
    \/ EnrichNotConfigured
    \/ EnrichBegin
    \/ EnrichExhausted
    \/ EnrichCapBreak
    \/ EnrichCallRaises
    \/ EnrichCallAbsent
    \/ EnrichCallSupplied

SpecEnrich == InitEnrich /\ [][NextEnrich]_vars

-----------------------------------------------------------------------------
(* build_accumulator_from_candidates *)

\* sorted(candidates, key=score, reverse=True): descending and stable, so
\* candidates of equal score keep their order in `cands`.  ranked pairs each
\* position of the result with the index in cands of the candidate put there.
SortByScoreDesc(cands) ==
    LET n == Len(cands)
        ranked == {<<Cardinality({q \in 1..n : FLess(cands[j].score, cands[q].score)})
                     + Cardinality({q \in 1..(j - 1) : FEq(cands[q].score, cands[j].score)})
                     + 1, j>> : j \in 1..n}
    IN [p \in 1..n |-> cands[(CHOOSE r \in ranked : r[1] = p)[2]]]

\* sorted(candidates, key=odds, reverse=True)
SortByOddsDesc(cands) ==
    LET n == Len(cands)
        ranked == {<<Cardinality({q \in 1..n : cands[j].odds < cands[q].odds})
                     + Cardinality({q \in 1..(j - 1) : cands[q].odds = cands[j].odds})
                     + 1, j>> : j \in 1..n}
    IN [p \in 1..n |-> cands[(CHOOSE r \in ranked : r[1] = p)[2]]]

\* variant of AlreadyUsed: the membership test left out
NeverUsed(c, used) == FALSE

\* lines 255 and 272: c["id"] in used_match_ids
AlreadyUsed(c, used) == c.id \in used

\* variant of InRangeStop: the size test left out
InRangeStopAnySize(n, prod) ==
    /\ FLeq(Frac(TARGET_MIN, 1), prod)
    /\ FLeq(prod, Frac(TARGET_MAX, 1))

\* line 264
InRangeStop(n, prod) ==
    /\ n >= LEGS_MIN
    /\ FLeq(Frac(TARGET_MIN, 1), prod)
    /\ FLeq(prod, Frac(TARGET_MAX, 1))

\* line 266
LegsMaxStop(n) == n >= LEGS_MAX

\* variant of BackfillNeeded: compared with TARGET_MAX
BackfillBelowMax(prod) == FLess(prod, Frac(TARGET_MAX, 1))

\* line 269
BackfillNeeded(prod) == FLess(prod, Frac(TARGET_MIN, 1))

\* line 277
BackfillStop(n, prod) == n >= LEGS_MAX \/ FLeq(Frac(TARGET_MIN, 1), prod)

\* round(product, 3), in thousandths.  When the exact product lies half way
\* between two thousandths the binary float decides, so both are possible.
Round3(prod) ==
    LET whole == prod.n \div prod.d
        part == (prod.n % prod.d) * 1000
        down == whole * 1000 + (part \div prod.d)
        rest == part % prod.d
    IN IF 2 * rest < prod.d THEN {down}
       ELSE IF 2 * rest > prod.d THEN {down + 1}
       ELSE {down, down + 1}

MaxSelectMatches == 6

\* A match together with what the inference service replied for it.
Kind(odds, reply) == [odds |-> odds, reply |-> reply]

SelectKinds == {
    \* one viable outcome, at 1.1
    Kind(<<Pair("home", Float(110)), Pair("draw", Float(100)), Pair("away", Float(101))>>,
         Reply("fail", <<>>)),
    Kind(<<Pair("home", Float(150)), Pair("draw", Float(340)), Pair("away", Float(410))>>,
         Reply("fail", <<>>)),
    Kind(<<Pair("home", Float(200)), Pair("draw", Float(340)), Pair("away", Float(410))>>,
         Reply("fail", <<>>)),
    \* scored 0.2, 0.9, 0.9 by the service: draw and away rank above home
    Kind(<<Pair("home", Float(200)), Pair("draw", Float(340)), Pair("away", Float(410))>>,
         Reply("text", <<20, 90, 90>>)) }

\* the candidates enrich_with_model (lines 232-243) leaves when the call for
\* match m is answered by kinds[m].reply and the cap is not reached: each match
\* is visited once, and a returned dict rescores the candidates of that match
EnrichedWith(cands, kinds) ==
    [q \in 1..Len(cands) |->
        LET m == cands[q].id + 1
            r == hf_predict_probabilities(TRUE, kinds[m].odds, kinds[m].reply)
        IN IF r.isNone THEN cands[q] ELSE Rescored(cands[q], r.probs)]

\* main(), lines 342-347: the candidates handed to the selector
InitSelect ==
    /\ \E kinds \in SeqsUpTo(SelectKinds, MaxSelectMatches) :
         /\ matches = [m \in 1..Len(kinds) |-> [odds |-> kinds[m].odds]]
         /\ \E built \in {candidate_selections(matches).cand} :
              candidates = EnrichedWith(built, kinds)
    /\ pc = "ba_start"
    /\ raised = "none"
    /\ hf_configured = TRUE /\ max_calls = DEFAULT_MAX_CALLS
    /\ i = 0 /\ called = 0 /\ invocations = 0 /\ supplied = <<>>
    /\ SelectQuiet

\* lines 250-253
SelectStart ==
    /\ pc = "ba_start"
    /\ sorted_c' = SortByScoreDesc(candidates)
    /\ accum' = <<>>
    /\ product' = Frac(1, 1)
    /\ used_match_ids' = {}
    /\ k' = 1
    /\ pc' = "ba_primary"
    /\ UNCHANGED <<matches, candidates, raised, enrichVars, total_odds, passOf, hit>>

\* lines 254-256
PrimarySkip ==
    /\ pc = "ba_primary"
    /\ k <= Len(sorted_c)
    /\ AlreadyUsed(sorted_c[k], used_match_ids)
    /\ k' = k + 1
    /\ UNCHANGED <<matches, candidates, pc, raised, enrichVars, sorted_c, accum,
                   product, used_match_ids, total_odds, passOf, hit>>

\* lines 261-267
PrimaryAppend ==
    /\ pc = "ba_primary"
    /\ k <= Len(sorted_c)
    /\ ~AlreadyUsed(sorted_c[k], used_match_ids)
    /\ accum' = Append(accum, sorted_c[k])
    /\ used_match_ids' = used_match_ids \cup {sorted_c[k].id}
    /\ product' = TimesOdds(product, sorted_c[k].odds)
    /\ IF InRangeStop(Len(accum'), product') \/ LegsMaxStop(Len(accum'))
       THEN pc' = "ba_check" /\ k' = k
       ELSE pc' = pc /\ k' = k + 1
    /\ passOf' = "primary"
    /\ hit' = IF /\ ~hit.found
                 /\ Len(accum') >= LEGS_MIN
                 /\ product'.n >= TARGET_MIN * product'.d
                 /\ product'.n <= TARGET_MAX * product'.d
              THEN [found |-> TRUE, set |-> accum']
              ELSE hit
    /\ UNCHANGED <<matches, candidates, raised, enrichVars, sorted_c, total_odds>>

\* line 254: the sorted list is exhausted
PrimaryExhausted ==
    /\ pc = "ba_primary"
    /\ k > Len(sorted_c)
    /\ pc' = "ba_check"
    /\ UNCHANGED <<matches, candidates, raised, enrichVars, sorted_c, k, accum,
                   product, used_match_ids, total_odds, passOf, hit>>

\* lines 269-271: the backfill pass is entered
BackfillEnter ==
    /\ pc = "ba_check"
    /\ BackfillNeeded(product)
    /\ sorted_c' = SortByOddsDesc(candidates)
    /\ k' = 1
    /\ pc' = "ba_backfill"
    /\ UNCHANGED <<matches, candidates, raised, enrichVars, accum, product,
                   used_match_ids, total_odds, passOf, hit>>

\* line 269: the test fails
BackfillNotEntered ==
    /\ pc = "ba_check"
    /\ ~BackfillNeeded(product)
    /\ pc' = "ba_return"
    /\ UNCHANGED <<matches, candidates, raised, enrichVars, sorted_c, k, accum,
                   product, used_match_ids, total_odds, passOf, hit>>

\* lines 271-273
BackfillSkip ==
    /\ pc = "ba_backfill"
    /\ k <= Len(sorted_c)
    /\ AlreadyUsed(sorted_c[k], used_match_ids)
    /\ k' = k + 1
    /\ UNCHANGED <<matches, candidates, pc, raised, enrichVars, sorted_c, accum,
                   product, used_match_ids, total_odds, passOf, hit>>

\* lines 274-278
BackfillAppend ==
    /\ pc = "ba_backfill"
    /\ k <= Len(sorted_c)
    /\ ~AlreadyUsed(sorted_c[k], used_match_ids)
    /\ accum' = Append(accum, sorted_c[k])
    /\ used_match_ids' = used_match_ids \cup {sorted_c[k].id}
    /\ product' = TimesOdds(product, sorted_c[k].odds)
    /\ IF BackfillStop(Len(accum'), product')
       THEN pc' = "ba_return" /\ k' = k
       ELSE pc' = pc /\ k' = k + 1
    /\ passOf' = "backfill"
    /\ UNCHANGED <<matches, candidates, raised, enrichVars, sorted_c, total_odds, hit>>

\* line 271: the sorted list is exhausted
BackfillExhausted ==
    /\ pc = "ba_backfill"
    /\ k > Len(sorted_c)
    /\ pc' = "ba_return"
    /\ UNCHANGED <<matches, candidates, raised, enrichVars, sorted_c, k, accum,
                   product, used_match_ids, total_odds, passOf, hit>>

\* line 279
SelectReturn ==
    /\ pc = "ba_return"
    /\ total_odds' \in Round3(product)
    /\ pc' = "ba_done"
    /\ UNCHANGED <<matches, candidates, raised, enrichVars, sorted_c, k, accum,
                   product, used_match_ids, passOf, hit>>

NextSelect ==
    \/ SelectStart
    \/ PrimarySkip
    \/ PrimaryAppend
    \/ PrimaryExhausted
    \/ BackfillEnter
    \/ BackfillNotEntered
    \/ BackfillSkip
    \/ BackfillAppend
    \/ BackfillExhausted
    \/ SelectReturn

SpecSelect == InitSelect /\ [][NextSelect]_vars

-----------------------------------------------------------------------------
(* Properties of candidate_selections, checked under SpecBuild *)

\* a price that counts as viable: a number above 1.01
ViablePrice(p) == p.t = "float" /\ p.v > 101

\* a declared price that is malformed: non-numeric, None, or not positive
MalformedPrice(p) == p.t # "float" \/ p.v <= 0

\* <<id, outcome, price>> of each candidate, in order
Triples(cands) == [q \in 1..Len(cands) |-> <<cands[q].id, cands[q].outcome, cands[q].odds>>]

\* the viable outcomes of one mapping among home, draw, away, in that order
FixedViable(odds, id) ==
    LET labels == SelectSeq(<<"home", "draw", "away">>,
                            LAMBDA l : ViablePrice(Get(odds, l)))
    IN [q \in 1..Len(labels) |-> <<id, labels[q], Get(odds, labels[q]).v>>]

\* the viable outcomes of one mapping among all it declares, in declaration order
DeclaredViable(odds, id) ==
    LET sel == SelectSeq(odds, LAMBDA e : ViablePrice(e.price))
    IN [q \in 1..Len(sel) |-> <<id, sel[q].label, sel[q].price.v>>]

RECURSIVE AllFixedViable(_, _)
AllFixedViable(ms, m) ==
    IF m > Len(ms) THEN <<>>
    ELSE FixedViable(ms[m].odds, m - 1) \o AllFixedViable(ms, m + 1)

RECURSIVE AllDeclaredViable(_, _)
AllDeclaredViable(ms, m) ==
    IF m > Len(ms) THEN <<>>
    ELSE DeclaredViable(ms[m].odds, m - 1) \o AllDeclaredViable(ms, m + 1)

HasMalformedPrice ==
    \E m \in 1..Len(matches) : \E q \in 1..Len(matches[m].odds) :
        MalformedPrice(matches[m].odds[q].price)

\* C5: when some outcome has a malformed price (non-numeric, missing, <= 0),
\* the call of candidate_selections does not raise, and every viable outcome
\* of every match still has its candidate in the result.
C5_MalformedPriceOnlySkipped ==
    (pc # "cs_start" /\ HasMalformedPrice) =>
        /\ raised = "none"
        /\ \A m \in 1..Len(matches) : \A l \in {"home", "draw", "away"} :
              ViablePrice(Get(matches[m].odds, l)) =>
                 \E q \in 1..Len(candidates) :
                    /\ candidates[q].id = m - 1
                    /\ candidates[q].outcome = l
                    /\ candidates[q].odds = Get(matches[m].odds, l).v

-----------------------------------------------------------------------------
(* Properties of enrich_with_model, checked under SpecEnrich *)

\* C4: in one run of enrich_with_model with cap max_calls, the service is
\* invoked at most max_calls times, failed and absent answers included.
\* Stated over the runs in which no call has raised, so that every call
\* counted is one that returned a dict or None.
C4_InvocationsWithinCap == (raised = "none") => invocations <= max_calls

\* C6: every candidate, as emitted and after enrichment, has price > 1.01 and
\* a defined effective score with 0 < score <= 1.
C6_ScoreInUnitInterval ==
    \A q \in 1..Len(candidates) :
        /\ candidates[q].odds > 101
        /\ candidates[q].score # NoProb
        /\ candidates[q].score.d > 0
        /\ 0 < candidates[q].score.n
        /\ candidates[q].score.n <= candidates[q].score.d

\* the scores, prices and implied probabilities enrichment must leave
FrameKept ==
    LET built == candidate_selections(matches).cand IN
    /\ Len(candidates) = Len(built)
    /\ \A q \in 1..Len(candidates) :
          /\ candidates[q].id = built[q].id
          /\ candidates[q].outcome = built[q].outcome
          /\ candidates[q].odds = built[q].odds
          /\ candidates[q].implied_prob = Frac(100, built[q].odds)
          /\ candidates[q].score =
                IF candidates[q].id \in DOMAIN supplied
                THEN supplied[candidates[q].id][candidates[q].outcome]
                ELSE Frac(100, built[q].odds)

\* C8: after enrich_with_model each candidate's score is the probability the
\* service supplied for its match and outcome, or else its implied
\* probability; price and implied probability are unchanged; and
\* enrich_with_model never raises.
C8_BestEffortEnrichment ==
    (pc \in {"en_done", "en_raised"}) => (raised = "none" /\ FrameKept)

-----------------------------------------------------------------------------
(* Properties of build_accumulator_from_candidates, checked under SpecSelect *)

DistinctMatches == {candidates[q].id : q \in 1..Len(candidates)}
SelectedMatches == {accum[a].id : a \in 1..Len(accum)}

\* C1: the selection set never has more than LEGS_MAX members.
C1_NeverAboveLegsMax == Len(accum) <= LEGS_MAX

\* C2: at every step of both passes, and in the returned set, no two
\* selected candidates have the same match id.
C2_OnePerMatch ==
    \A a, b \in 1..Len(accum) : a # b => accum[a].id # accum[b].id

\* the backfill pass has appended, and a match with several candidates is in
\* the returned set
C2_Witness ==
    /\ pc = "ba_done"
    /\ passOf = "backfill"
    /\ \E a \in 1..Len(accum) :
          Cardinality({q \in 1..Len(candidates) : candidates[q].id = accum[a].id}) >= 2

\* C3: with candidates of at least LEGS_MIN distinct matches the returned set
\* has at least LEGS_MIN members; with fewer, it has exactly one member per
\* distinct match.
C3_AtLeastLegsMin ==
    (pc = "ba_done") =>
        IF Cardinality(DistinctMatches) >= LEGS_MIN
        THEN Len(accum) >= LEGS_MIN
        ELSE /\ Len(accum) = Cardinality(DistinctMatches)
             /\ SelectedMatches = DistinctMatches

\* a return with exactly LEGS_MIN legs although more matches were available
C3_Witness ==
    /\ pc = "ba_done"
    /\ Cardinality(DistinctMatches) > LEGS_MIN
    /\ Len(accum) = LEGS_MIN

\* C9: once an append of the primary pass leaves at least LEGS_MIN legs and a
\* product within [TARGET_MIN, TARGET_MAX], the set stays as it is at the first
\* such point until it is returned, and the reported product is within range.
C9_ReturnsFirstInRangeSet ==
    hit.found =>
        /\ accum = hit.set
        /\ pc # "ba_backfill"
        /\ (pc = "ba_done" =>
               /\ total_odds >= TARGET_MIN * 1000
               /\ total_odds <= TARGET_MAX * 1000)

\* a return at an in-range point while matches were still unused
C9_Witness ==
    /\ pc = "ba_done"
    /\ hit.found
    /\ SelectedMatches # DistinctMatches

\* C10: a return with product below TARGET_MIN has exactly LEGS_MAX members
\* or represents every match that has a candidate.
C10_BelowTargetOnlyWhenExhausted ==
    (pc = "ba_done" /\ FLess(product, Frac(TARGET_MIN, 1))) =>
        \/ Len(accum) = LEGS_MAX
        \/ SelectedMatches = DistinctMatches

====
